---- MODULE Spec2Model ----
(***************************************************************************)
(* Model of the deterministic core of the pharmacy backend:                *)
(*   - ForecastAgent (agents/forecast_agent.py): predict_depletion and     *)
(*     should_notify_user over one medicine's order history;               *)
(*   - MedicineParser (agents/medicine_parser.py): parse_message over one  *)
(*     free-form text message.                                             *)
(* Dates are proleptic Gregorian ordinals (date.toordinal()).  Rates are   *)
(* exact fractions, with the IEEE values inf and NaN of the pandas/numpy   *)
(* arithmetic kept as separate cases.  A Python call is modelled by its    *)
(* outcome: Return(v) or Raise(e); try/except turns a Raise into a value.  *)
(***************************************************************************)
EXTENDS Integers, Sequences, FiniteSets, TLC

VARIABLES order_history, today, prediction, notify, pc,
          message, result, ppc,
          all_order_history, predictions, bpc,
          cart_items, orders, cart_docs, deleted, chat, response, cpc,
          active_connections, user_subscriptions, failing, sending, disconnected

\* the cart of one user and conversation, and a confirm_cart and an
\* order_chat call on it
cartVars == <<cart_items, orders, cart_docs, deleted, chat, response, cpc>>

\* the ConnectionManager and a send_to_user call on it
socketVars == <<active_connections, user_subscriptions, failing, sending, disconnected>>

\* the forecaster, the parser and the batch of predictions
agentVars == <<order_history, today, prediction, notify, pc, message, result, ppc,
               all_order_history, predictions, bpc>>

vars == <<agentVars, cartVars, socketVars>>

(***************************************************************************)
(* Outcomes of a call                                                      *)
(***************************************************************************)
Raise(e) == [kind |-> "raise", exc |-> e]

Return(v) == [kind |-> "return", value |-> v]

None == [kind |-> "None"]

Pending == [kind |-> "pending"]

(***************************************************************************)
(* Bounds of the forecaster inputs                                         *)
(***************************************************************************)
\* longest order history enumerated exhaustively
MaxHist == 4

\* order quantities enumerated exhaustively
Quantities == {1, 2}

\* ordinal of the earliest order date enumerated (2026-01-01)
FirstDay == 739617

\* order dates FirstDay .. FirstDay + 3: gaps of 0, 1, 2 and 3 days
OrderDates == {FirstDay + k : k \in 0..3}

\* values of date.today(): just after the orders, and two weeks earlier
Todays == {FirstDay + 3, FirstDay - 11}

(***************************************************************************)
(* Python runtime limits the forecaster can run into                       *)
(***************************************************************************)
\* date.max.toordinal(): date + timedelta beyond it raises OverflowError
DATE_MAX_ORDINAL == 3652059

\* timedelta.max.days: timedelta(days=x) beyond it raises OverflowError
TIMEDELTA_MAX_DAYS == 999999999

(***************************************************************************)
(* core/config.py                                                          *)
(***************************************************************************)
PREDICTION_MIN_ORDERS == 3

\* PREDICTION_CONFIDENCE_THRESHOLD = 0.7, in hundredths
PREDICTION_CONFIDENCE_THRESHOLD == 70

\* the reorder lead time, timedelta(days=7)
REORDER_LEAD_DAYS == 7

\* the notification window, days_until_depletion <= 7
NOTIFY_WINDOW_DAYS == 7

(***************************************************************************)
(* Order history entries.  A date value is [ord |-> n] (a date) or         *)
(* [str |-> s] (a string pandas cannot parse).  An entry may lack either   *)
(* key: pandas fills the column with NaT / NaN for it.                     *)
(***************************************************************************)
Date(n) == [ord |-> n]

BadDate == [str |-> "not-a-date"]

HasDate(e) == "order_date" \in DOMAIN e

HasQty(e) == "quantity" \in DOMAIN e

ValidEntries == {[order_date |-> Date(d), quantity |-> q] : d \in OrderDates, q \in Quantities}

MalformedEntries ==
    { [quantity |-> 1],
      [order_date |-> Date(FirstDay + 1)],
      [order_date |-> BadDate, quantity |-> 1] }

Entries == ValidEntries \cup MalformedEntries

ValidHistory(h) == \A i \in 1..Len(h) : h[i] \in ValidEntries \/
    (HasDate(h[i]) /\ HasQty(h[i]) /\ "ord" \in DOMAIN h[i].order_date /\ h[i].quantity > 0)

\* demo.py: 4 orders of 60 units, 30 days apart, the last one today
DemoHistory == [i \in 1..4 |-> [order_date |-> Date(FirstDay + 3 - 30 * (4 - i)), quantity |-> 60]]

\* orders 40000 days apart (2026, 2135, 2245: inside the pandas Timestamp
\* range), the last one of 100 units: depletion falls after year 9999
FarHistory ==
    << [order_date |-> Date(FirstDay + 3), quantity |-> 1],
       [order_date |-> Date(FirstDay + 40003), quantity |-> 1],
       [order_date |-> Date(FirstDay + 80003), quantity |-> 100] >>

\* 3 orders of 1 unit, 3 days apart: a rate of 1/3 a day
ThirdsHistory == [i \in 1..3 |-> [order_date |-> Date(FirstDay + 3 * (i - 1) - 3), quantity |-> 1]]

\* 3 orders of 1 unit, 300 days apart: a rate of 1/300 a day
SlowHistory == [i \in 1..3 |-> [order_date |-> Date(FirstDay + 300 * (i - 1) - 597), quantity |-> 1]]

\* 3 orders of 1 unit, 11 and then 17 days apart: the intervals vary by
\* 0.303 of their mean
UnevenHistory ==
    << [order_date |-> Date(FirstDay - 25), quantity |-> 1],
       [order_date |-> Date(FirstDay - 14), quantity |-> 1],
       [order_date |-> Date(FirstDay + 3), quantity |-> 1] >>

SampleHistories == {DemoHistory, FarHistory, ThirdsHistory, SlowHistory, UnevenHistory}

(***************************************************************************)
(* Exact arithmetic                                                        *)
(***************************************************************************)
RECURSIVE GCD(_, _)
GCD(a, b) == IF b = 0 THEN a ELSE GCD(b, a % b)

Frac(n, d) == LET g == GCD(n, d) IN [num |-> n \div g, den |-> d \div g]

AddFrac(x, y) ==
    LET g == GCD(x.den, y.den)
        l == (x.den \div g) * y.den
    IN  Frac(x.num * (l \div x.den) + y.num * (l \div y.den), l)

\* round-half-even of n/d (n >= 0, d > 0), as round() and np.round do
RoundHalfEven(n, d) ==
    LET q == n \div d
        r == n % d
    IN  IF 2 * r > d \/ (2 * r = d /\ q % 2 = 1) THEN q + 1 ELSE q

(***************************************************************************)
(* df = pd.DataFrame(order_history); pd.to_datetime; df.sort_values        *)
(***************************************************************************)
\* df['order_date'] raises KeyError when no entry has the key
NoDateColumn(h) == \A i \in 1..Len(h) : ~HasDate(h[i])

\* pd.to_datetime raises on a string it cannot parse
Unparseable(h) == \E i \in 1..Len(h) : HasDate(h[i]) /\ "ord" \notin DOMAIN h[i].order_date

\* a row of the frame: order_date is the ordinal (absent: NaT),
\* quantity the number (absent: NaN)
Row(e) ==
    IF HasDate(e)
    THEN IF HasQty(e) THEN [order_date |-> e.order_date.ord, quantity |-> e.quantity]
                      ELSE [order_date |-> e.order_date.ord]
    ELSE IF HasQty(e) THEN [quantity |-> e.quantity] ELSE [none |-> TRUE]

to_datetime(h) == [i \in 1..Len(h) |-> Row(h[i])]

\* a sorts strictly before b under sort_values('order_date') (NaT last)
Before(a, b) == HasDate(a) /\ (~HasDate(b) \/ a.order_date < b.order_date)

RECURSIVE Insert(_, _)
Insert(r, s) ==
    IF s = <<>> THEN <<r>>
    ELSE IF Before(r, s[Len(s)]) THEN Append(Insert(r, SubSeq(s, 1, Len(s) - 1)), s[Len(s)])
    ELSE Append(s, r)

\* The sort sees only the date keys (argsort of the column): rows with equal
\* dates keep an order fixed by their positions in the caller's list, here
\* the caller's order (numpy sorts short arrays by insertion).
RECURSIVE sort_values(_)
sort_values(df) ==
    IF df = <<>> THEN <<>>
    ELSE Insert(df[Len(df)], sort_values(SubSeq(df, 1, Len(df) - 1)))

(***************************************************************************)
(* _calculate_consumption_rate                                             *)
(***************************************************************************)
\* df['days_since_last'] at row i >= 2 (defined when neither date is NaT)
HasInterval(df, i) == HasDate(df[i]) /\ HasDate(df[i - 1])

days_since_last(df, i) == df[i].order_date - df[i - 1].order_date

\* row i survives dropna() and the filter valid_rates > 0: the quotient
\* quantity[i-1] / days_since_last[i] is a positive number or +inf
ValidRate(df, i) == HasInterval(df, i) /\ HasQty(df[i - 1]) /\ df[i - 1].quantity > 0

ValidRows(df) == {i \in 2..Len(df) : ValidRate(df, i)}

RECURSIVE SumRates(_, _)
SumRates(df, rows) ==
    IF rows = {} THEN [num |-> 0, den |-> 1]
    ELSE LET i == CHOOSE j \in rows : TRUE
         IN  AddFrac(Frac(df[i - 1].quantity, days_since_last(df, i)), SumRates(df, rows \ {i}))

\* a mutant of the mean: the sum of the valid rates over the number of rows
_calculate_consumption_rate_over_rows(df) ==
    IF Len(df) < 2 THEN [kind |-> "zero"]
    ELSE LET rows == ValidRows(df)
         IN  IF rows = {} THEN [kind |-> "zero"]
             ELSE IF \E i \in rows : days_since_last(df, i) = 0 THEN [kind |-> "inf"]
             ELSE LET s == SumRates(df, rows)
                      m == Frac(s.num, s.den * Len(df))
                  IN  [kind |-> "fin", num |-> m.num, den |-> m.den]

\* zero (0.0), inf, or the fraction num/den > 0
_calculate_consumption_rate(df) ==
    IF Len(df) < 2 THEN [kind |-> "zero"]
    ELSE LET rows == ValidRows(df)
         IN  IF rows = {} THEN [kind |-> "zero"]
             ELSE IF \E i \in rows : days_since_last(df, i) = 0 THEN [kind |-> "inf"]
             ELSE LET s == SumRates(df, rows)
                      m == Frac(s.num, s.den * Cardinality(rows))
                  IN  [kind |-> "fin", num |-> m.num, den |-> m.den]

(***************************************************************************)
(* _calculate_confidence and _get_confidence_level.  With k intervals of   *)
(* sum S, cv^2 = A / B for A = sum (k*g - S)^2 and B = (k-1) * S^2.        *)
(***************************************************************************)
Intervals(df) == {i \in 2..Len(df) : HasInterval(df, i)}

RECURSIVE SumGaps(_, _)
SumGaps(df, rows) ==
    IF rows = {} THEN 0
    ELSE LET i == CHOOSE j \in rows : TRUE
         IN  days_since_last(df, i) + SumGaps(df, rows \ {i})

SumIntervals(df) == SumGaps(df, Intervals(df))

RECURSIVE SumSqDev(_, _, _, _)
SumSqDev(df, rows, k, S) ==
    IF rows = {} THEN 0
    ELSE LET i == CHOOSE j \in rows : TRUE
             dv == k * days_since_last(df, i) - S
         IN  dv * dv + SumSqDev(df, rows \ {i}, k, S)

\* the confidence in hundredths, before round(confidence_score, 2)
\* [exact |-> c] when it is 0.5 or 1.0 by a default, else [A, B] with cv^2 = A/B
_calculate_confidence(df) ==
    LET rows == Intervals(df)
        k == Cardinality(rows)
        S == SumIntervals(df)
    IN  IF Len(df) < 2 \/ k = 0 THEN [kind |-> "default", c |-> 50]
        ELSE IF S <= 0 THEN [kind |-> "default", c |-> 50]
        ELSE IF k = 1 THEN [kind |-> "default", c |-> 100]
        ELSE [kind |-> "cv", A |-> SumSqDev(df, rows, k, S), B |-> (k - 1) * S * S]

\* 1 - cv >= t/100, i.e. cv <= (100 - t)/100
ScoreAtLeast(conf, t) ==
    IF conf.kind = "default" THEN conf.c >= t
    ELSE conf.A = 0 \/ 10000 * conf.A <= (100 - t) * (100 - t) * conf.B

_get_confidence_level(conf) ==
    IF ScoreAtLeast(conf, PREDICTION_CONFIDENCE_THRESHOLD) THEN "high"
    ELSE IF ScoreAtLeast(conf, 50) THEN "medium"
    ELSE "low"

\* round(confidence_score, 2) in hundredths: 100 - u for the least u with
\* 100 * cv <= u + 1/2, and 0 when cv > 1
RoundedScore(conf) ==
    IF conf.kind = "default" THEN conf.c
    ELSE IF conf.A = 0 THEN 100
    ELSE LET fits(u) == 40000 * conf.A <= (2 * u + 1) * (2 * u + 1) * conf.B
         IN  IF \E u \in 0..100 : fits(u)
             THEN 100 - (CHOOSE u \in 0..100 : fits(u) /\ \A v \in 0..(u - 1) : ~fits(v))
             ELSE 0

(***************************************************************************)
(* predict_depletion                                                       *)
(***************************************************************************)
\* df['quantity'] raises KeyError when no entry has the key
NoQtyColumn(h) == \A i \in 1..Len(h) : ~HasQty(h[i])

\* a mutant of the guard: the minimum is compared one too low
InsufficientData_off_by_one(h) == Len(h) < PREDICTION_MIN_ORDERS - 1

\* the guard of line 50
InsufficientData(h) == Len(h) < PREDICTION_MIN_ORDERS

\* df.tail(3)['quantity'].tolist()
RecentOrders(df) == SubSeq(df, IF Len(df) > 3 THEN Len(df) - 2 ELSE 1, Len(df))

RECURSIVE SumQty(_)
SumQty(rows) == IF rows = <<>> THEN 0 ELSE rows[1].quantity + SumQty(Tail(rows))

\* int(np.mean(recent_orders)): int() truncates
suggested_quantity(recent) == SumQty(recent) \div Len(recent)

\* round(consumption_rate, 2), in hundredths
ReportedRate(rate) ==
    IF rate.kind = "inf" THEN [kind |-> "inf"]
    ELSE [kind |-> "fin", hundredths |-> RoundHalfEven(100 * rate.num, rate.den)]

\* whole days of timedelta(days=last_quantity / consumption_rate).  date +
\* timedelta ignores the seconds of the timedelta, so the fraction of a day is
\* dropped; the float quotient and the exact one have the same whole days
\* because timedelta first rounds to the microsecond.
days_to_deplete(q, rate) == IF rate.kind = "inf" THEN 0 ELSE (q * rate.den) \div rate.num

\* a mutant of the clamp: the suggestion is returned as computed
ClampToToday_unclamped(d, t) == d

\* a mutant of the clamp: today is returned whatever the suggestion
ClampToToday_always_today(d, t) == t

\* max(suggested_reorder_date, date.today())
ClampToToday(d, t) == IF d > t THEN d ELSE t

\* the body of the try block, lines 49-101
PredictBody(h, t) ==
    IF InsufficientData(h) THEN Return(None)
    ELSE IF NoDateColumn(h) THEN Raise("KeyError")
    ELSE IF Unparseable(h) THEN Raise("ValueError")
    ELSE IF NoQtyColumn(h) THEN Raise("KeyError")
    ELSE LET df == sort_values(to_datetime(h))
             rate == _calculate_consumption_rate(df)
             last_order == df[Len(df)]
         IN  IF rate.kind = "zero" THEN Return(None)
             ELSE IF ~HasQty(last_order) THEN Raise("ValueError")
             ELSE LET days == days_to_deplete(last_order.quantity, rate)
                  IN  IF days > TIMEDELTA_MAX_DAYS THEN Raise("OverflowError")
                      ELSE IF HasDate(last_order) /\ last_order.order_date + days > DATE_MAX_ORDINAL
                           THEN Raise("OverflowError")
                      ELSE IF \E i \in 1..Len(RecentOrders(df)) : ~HasQty(RecentOrders(df)[i])
                           THEN Raise("ValueError")
                      \* a NaT last_order_date stays NaT up to max(NaT, date.today()),
                      \* where pandas (1.3 and later) raises TypeError
                      ELSE IF ~HasDate(last_order) THEN Raise("TypeError")
                      ELSE LET predicted == last_order.order_date + days
                               conf == _calculate_confidence(df)
                           IN  Return([kind |-> "prediction",
                                       average_consumption_rate |-> ReportedRate(rate),
                                       last_order_date |-> Date(last_order.order_date),
                                       last_order_quantity |-> last_order.quantity,
                                       predicted_depletion_date |-> Date(predicted),
                                       suggested_reorder_date |->
                                           Date(ClampToToday(predicted - REORDER_LEAD_DAYS, t)),
                                       suggested_quantity |-> suggested_quantity(RecentOrders(df)),
                                       confidence |-> _get_confidence_level(conf),
                                       confidence_score |-> RoundedScore(conf),
                                       historical_data |-> h])

\* a mutant of the handler: the exception leaves the function
ExceptReturn_propagates(outcome, v) == outcome

\* except Exception: return None
ExceptReturn(outcome, v) == IF outcome.kind = "raise" THEN Return(v) ELSE outcome

predict_depletion(h, t) == ExceptReturn(PredictBody(h, t), None)

(***************************************************************************)
(* should_notify_user                                                      *)
(***************************************************************************)
\* predictions handed to should_notify_user from storage: depletion dates
\* around today, every level, and records it cannot read
StoredDates(t) == {Date(t + k) : k \in {-1, 0, 3, 7, 8, 10}}

StoredPredictions(t) ==
    {[kind |-> "prediction", predicted_depletion_date |-> d, confidence |-> c] :
        d \in StoredDates(t), c \in {"high", "medium", "low"}}
    \cup {[kind |-> "prediction", confidence |-> "high"],
          [kind |-> "prediction", predicted_depletion_date |-> BadDate, confidence |-> "high"],
          [kind |-> "prediction", predicted_depletion_date |-> Date(t + 3)],
          None}

\* a mutant of the test: the lower bound days_until_depletion >= 0 is lost
NotifyBody_no_lower_bound(p, t) ==
    IF p = None THEN Raise("TypeError")
    ELSE IF "predicted_depletion_date" \notin DOMAIN p THEN Raise("KeyError")
    ELSE IF "ord" \notin DOMAIN p.predicted_depletion_date THEN Raise("ValueError")
    ELSE Return(/\ p.predicted_depletion_date.ord - t <= NOTIFY_WINDOW_DAYS
                /\ "confidence" \in DOMAIN p
                /\ p.confidence = "high")

\* the body of the try block, lines 189-205
NotifyBody(p, t) ==
    IF p = None THEN Raise("TypeError")
    ELSE IF "predicted_depletion_date" \notin DOMAIN p THEN Raise("KeyError")
    ELSE IF "ord" \notin DOMAIN p.predicted_depletion_date THEN Raise("ValueError")
    ELSE LET days_until_depletion == p.predicted_depletion_date.ord - t
         IN  Return(/\ days_until_depletion <= NOTIFY_WINDOW_DAYS
                    /\ days_until_depletion >= 0
                    /\ "confidence" \in DOMAIN p
                    /\ p.confidence = "high")

should_notify_user(p, t) == ExceptReturn(NotifyBody(p, t), FALSE)

(***************************************************************************)
(* The forecaster as a state machine                                       *)
(***************************************************************************)
RECURSIVE SeqsUpTo(_, _)
SeqsUpTo(S, n) ==
    IF n = 0 THEN {<<>>}
    ELSE LET shorter == SeqsUpTo(S, n - 1)
         IN  shorter \cup {Append(s, x) : s \in {u \in shorter : Len(u) = n - 1}, x \in S}

Histories == SeqsUpTo(Entries, MaxHist) \cup SampleHistories

ForecastIdle ==
    order_history = <<>> /\ today = FirstDay /\ prediction = Pending /\ notify = Pending /\ pc = "idle"

ParserIdle == message = <<>> /\ result = Pending /\ ppc = "idle"

BatchIdle == all_order_history = <<>> /\ predictions = Pending /\ bpc = "idle"

CartIdle ==
    /\ cart_items = {} /\ orders = <<>> /\ cart_docs = {} /\ deleted = {}
    /\ chat = <<>> /\ response = Pending /\ cpc = "idle"

SocketIdle ==
    /\ active_connections = {} /\ user_subscriptions = <<>> /\ failing = {}
    /\ sending = Pending /\ disconnected = {}

\* the routes and the connection manager are not in use
RoutesIdle == CartIdle /\ SocketIdle

\* a caller holding a history, about to call predict_depletion
InitForecast ==
    /\ order_history \in Histories
    /\ today \in Todays
    /\ prediction = Pending
    /\ notify = Pending
    /\ pc = "start"
    /\ ParserIdle
    /\ BatchIdle
    /\ RoutesIdle

\* a caller holding a stored prediction, about to call should_notify_user
InitStored ==
    /\ order_history = <<>>
    /\ today \in Todays
    /\ prediction \in {Return(p) : p \in StoredPredictions(today)}
    /\ notify = Pending
    /\ pc = "stored"
    /\ ParserIdle
    /\ BatchIdle
    /\ RoutesIdle

(***************************************************************************)
(* The objects predict_depletion has written to when it leaves: the list   *)
(* the caller passed, and the frame df that pd.DataFrame built from it.     *)
(***************************************************************************)
\* df['days_since_last'] and df['daily_consumption'] (the quantity before
\* the row over the days since it), added to df where they are defined
WithRateColumns(df) ==
    [i \in 1..Len(df) |->
        IF i >= 2 /\ HasInterval(df, i)
        THEN IF HasQty(df[i - 1])
             THEN df[i] @@ [days_since_last |-> days_since_last(df, i),
                            daily_consumption |-> <<df[i - 1].quantity, days_since_last(df, i)>>]
             ELSE df[i] @@ [days_since_last |-> days_since_last(df, i)]
        ELSE df[i]]

\* a mutant of the objects: the frame shares its rows with the caller's list
ObjectsAtExit_shared_rows(h) ==
    IF InsufficientData(h) THEN [order_history |-> h]
    ELSE IF NoDateColumn(h) \/ Unparseable(h) THEN [order_history |-> h, df |-> h]
    ELSE LET df == WithRateColumns(sort_values(to_datetime(h)))
         IN  [order_history |-> [i \in 1..Len(df) |->
                                    IF HasDate(df[i])
                                    THEN [df[i] EXCEPT !.order_date = Date(@)]
                                    ELSE df[i]],
              df |-> df]

\* no frame before the length guard; the unconverted copy when the
\* conversion of the dates raises; else the sorted frame with its columns.
\* Every assignment of the function is to df or to a column of df.
ObjectsAtExit(h) ==
    IF InsufficientData(h) THEN [order_history |-> h]
    ELSE IF NoDateColumn(h) \/ Unparseable(h) THEN [order_history |-> h, df |-> h]
    ELSE [order_history |-> h, df |-> WithRateColumns(sort_values(to_datetime(h)))]

CallPredictDepletion ==
    /\ pc = "start"
    /\ prediction' = predict_depletion(order_history, today)
    /\ order_history' = ObjectsAtExit(order_history).order_history
    /\ pc' = "predicted"
    /\ UNCHANGED <<today, notify, message, result, ppc, all_order_history, predictions, bpc,
                   cartVars, socketVars>>

CallShouldNotifyUser ==
    /\ pc \in {"predicted", "stored"}
    /\ prediction.kind = "return"
    /\ notify' = should_notify_user(prediction.value, today)
    /\ pc' = "notified"
    /\ UNCHANGED <<order_history, today, prediction, message, result, ppc,
                   all_order_history, predictions, bpc, cartVars, socketVars>>

NextForecast == CallPredictDepletion \/ CallShouldNotifyUser

SpecForecast == (InitForecast \/ InitStored) /\ [][NextForecast]_vars

(***************************************************************************)
(* generate_predictions_for_user: one call of predict_depletion for every  *)
(* medicine of all_order_history, in the order of the dict.  The dict is a  *)
(* sequence of items with distinct medicine ids.                            *)
(***************************************************************************)
MedicineIds == {"med_a", "med_b", "med_c"}

\* one order only; three orders on one date; an order without a date; two
\* orders out of date order; and two of the sample histories
BatchHistories ==
    { <<[order_date |-> Date(FirstDay), quantity |-> 1]>>,
      [i \in 1..3 |-> [order_date |-> Date(FirstDay + 1), quantity |-> 2]],
      <<[quantity |-> 1], [order_date |-> Date(FirstDay), quantity |-> 1]>>,
      <<[order_date |-> Date(FirstDay + 2), quantity |-> 2],
        [order_date |-> Date(FirstDay), quantity |-> 1]>>,
      DemoHistory,
      ThirdsHistory }

Items == {[medicine_id |-> m, order_history |-> h] : m \in MedicineIds, h \in BatchHistories}

DistinctIds(items) ==
    \A i, j \in 1..Len(items) : items[i].medicine_id = items[j].medicine_id => i = j

AllOrderHistories == {d \in SeqsUpTo(Items, Cardinality(MedicineIds)) : DistinctIds(d)}

\* predict_depletion(user_id, medicine_id, order_history): the prediction
\* carries the medicine_id it was asked for (user_id is copied likewise)
predict_depletion_for(medicine_id, h, t) ==
    LET outcome == predict_depletion(h, t)
    IN  IF outcome.value = None THEN outcome
        ELSE Return(outcome.value @@ [medicine_id |-> medicine_id])

\* a mutant of the loop: it ends at the first medicine without a prediction
RECURSIVE generate_predictions_until_none(_, _)
generate_predictions_until_none(items, t) ==
    IF items = <<>> THEN <<>>
    ELSE LET outcome == predict_depletion_for(items[1].medicine_id, items[1].order_history, t)
         IN  IF outcome.value = None THEN <<>>
             ELSE <<outcome.value>> \o generate_predictions_until_none(Tail(items), t)

\* for medicine_id, order_history in all_order_history.items():
\*     prediction = await self.predict_depletion(...)
\*     if prediction: predictions.append(prediction)
RECURSIVE generate_predictions_for_user(_, _)
generate_predictions_for_user(items, t) ==
    IF items = <<>> THEN <<>>
    ELSE LET outcome == predict_depletion_for(items[1].medicine_id, items[1].order_history, t)
         IN  IF outcome.value = None THEN generate_predictions_for_user(Tail(items), t)
             ELSE <<outcome.value>> \o generate_predictions_for_user(Tail(items), t)

\* a caller holding the histories of a user, about to ask for the batch
InitBatch ==
    /\ all_order_history \in AllOrderHistories
    /\ today \in Todays
    /\ predictions = Pending
    /\ bpc = "start"
    /\ order_history = <<>> /\ prediction = Pending /\ notify = Pending /\ pc = "idle"
    /\ ParserIdle
    /\ RoutesIdle

CallGeneratePredictions ==
    /\ bpc = "start"
    /\ predictions' = Return(generate_predictions_for_user(all_order_history, today))
    /\ all_order_history' =
           [i \in 1..Len(all_order_history) |->
               [all_order_history[i] EXCEPT
                   !.order_history = ObjectsAtExit(@).order_history]]
    /\ bpc' = "generated"
    /\ UNCHANGED <<order_history, today, prediction, notify, pc, message, result, ppc,
                   cartVars, socketVars>>

NextBatch == CallGeneratePredictions

SpecBatch == InitBatch /\ [][NextBatch]_vars

(***************************************************************************)
(* api/routes/ordering.py: the cart of one user and conversation in        *)
(* db.cart_items, one confirm_cart call and one order_chat call.  Every    *)
(* await of a database operation is a step; the operations themselves are   *)
(* atomic.  A cart item is a document with a medicine_name, unique in the   *)
(* cart (the key of the upsert), and a quantity.                            *)
(***************************************************************************)
CartMedicines == {"Aspirin", "Ibuprofen"}

CartDocs == {[medicine_name |-> m, quantity |-> q] : m \in CartMedicines, q \in Quantities}

UniqueNames(docs) == \A a, b \in docs : a.medicine_name = b.medicine_name => a = b

Carts == {docs \in SUBSET CartDocs : UniqueNames(docs)}

\* the most medicines one chat message names
MaxParsed == 2

\* result["parsed_medicines"] of the chat message
ParsedMedicines == SeqsUpTo(CartDocs, MaxParsed)

\* the order items built from the documents read (lines 268-282)
OrderItems(docs) == docs

\* update_one(..., upsert=True): the document of that medicine_name is
\* replaced, or inserted when there is none
Upsert(docs, medicine) ==
    {d \in docs : d.medicine_name # medicine.medicine_name} \cup {medicine}

InitCart ==
    /\ cart_items \in Carts
    /\ chat \in ParsedMedicines
    /\ orders = <<>> /\ cart_docs = {} /\ deleted = {}
    /\ response = Pending
    /\ cpc = "start"
    /\ ForecastIdle /\ ParserIdle /\ BatchIdle /\ SocketIdle

\* order_chat, lines 137-159: one upsert for every parsed medicine
ChatUpsert ==
    /\ chat # <<>>
    /\ cart_items' = Upsert(cart_items, Head(chat))
    /\ chat' = Tail(chat)
    /\ UNCHANGED <<orders, cart_docs, deleted, response, cpc, agentVars, socketVars>>

\* confirm_cart, lines 253-263: the cart is read; an empty cart is an error
ConfirmFind ==
    /\ cpc = "start"
    /\ cart_docs' = cart_items
    /\ IF cart_items = {}
       THEN response' = Raise("HTTP_400_BAD_REQUEST") /\ cpc' = "done"
       ELSE response' = response /\ cpc' = "found"
    /\ UNCHANGED <<cart_items, orders, deleted, chat, agentVars, socketVars>>

\* lines 265-295: the order is built from the documents read and inserted
ConfirmInsert ==
    /\ cpc = "found"
    /\ orders' = Append(orders, OrderItems(cart_docs))
    /\ cpc' = "inserted"
    /\ UNCHANGED <<cart_items, cart_docs, deleted, chat, response, agentVars, socketVars>>

\* lines 297-318: delete_many(query) removes every document of the cart as
\* it is now, and the order is reported
ConfirmClear ==
    /\ cpc = "inserted"
    /\ deleted' = cart_items
    /\ cart_items' = {}
    /\ response' = Return([items_count |-> Cardinality(OrderItems(cart_docs))])
    /\ cpc' = "done"
    /\ UNCHANGED <<orders, cart_docs, chat, agentVars, socketVars>>

NextCart == ChatUpsert \/ ConfirmFind \/ ConfirmInsert \/ ConfirmClear

SpecCart == InitCart /\ [][NextCart]_vars

(***************************************************************************)
(* core/websocket_manager.py: ConnectionManager.  active_connections is    *)
(* the set of its keys; user_subscriptions gives every user a list of       *)
(* client ids (a user without an entry has the empty list).  The loop of    *)
(* send_to_user walks the list by index, as a Python for loop over a list   *)
(* does, while disconnect removes elements from that same list.             *)
(***************************************************************************)
Clients == {"c1", "c2", "c3"}

Users == {"u1", "u2"}

Range(seq) == {seq[i] : i \in 1..Len(seq)}

NoRepeats(seq) == \A i, j \in 1..Len(seq) : seq[i] = seq[j] => i = j

\* the lists subscribe_user builds: no client twice (line 41)
ClientLists == {l \in SeqsUpTo(Clients, Cardinality(Clients)) : NoRepeats(l)}

\* clients.remove(client_id): the first occurrence is taken out
Remove(clients, c) ==
    LET i == CHOOSE k \in 1..Len(clients) :
                 clients[k] = c /\ \A j \in 1..(k - 1) : clients[j] # c
    IN  SubSeq(clients, 1, i - 1) \o SubSeq(clients, i + 1, Len(clients))

\* lines 30-32: the client is removed from the list of every user
Unsubscribed(subs, c) ==
    [u \in DOMAIN subs |-> IF c \in Range(subs[u]) THEN Remove(subs[u], c) ELSE subs[u]]

InitSocket ==
    /\ active_connections \in SUBSET Clients
    /\ user_subscriptions \in [Users -> ClientLists]
    /\ failing \in SUBSET active_connections
    /\ sending = Pending
    /\ disconnected = {}
    /\ ForecastIdle /\ ParserIdle /\ BatchIdle /\ CartIdle

\* disconnect(client_id), called by the endpoint before a send begins
disconnect ==
    /\ sending = Pending
    /\ \E c \in Clients :
           /\ c \notin disconnected
           /\ active_connections' = active_connections \ {c}
           /\ user_subscriptions' = Unsubscribed(user_subscriptions, c)
           /\ disconnected' = disconnected \cup {c}
    /\ UNCHANGED <<failing, sending, agentVars, cartVars>>

\* send_to_user(message, user_id): the for loop begins at the head of the list
send_to_user ==
    /\ sending = Pending
    /\ \E u \in Users :
           sending' = [pc |-> "loop", user_id |-> u, index |-> 1, attempted |-> {}]
    /\ UNCHANGED <<active_connections, user_subscriptions, failing, disconnected,
                   agentVars, cartVars>>

\* one pass of the loop: send_personal_message to the client at the index.
\* A client without a connection is passed over; a send that raises
\* disconnects the client (lines 52-54).
send_personal_message ==
    /\ sending # Pending /\ sending.pc = "loop"
    /\ sending.index <= Len(user_subscriptions[sending.user_id])
    /\ LET c == user_subscriptions[sending.user_id][sending.index]
       IN  IF c \in active_connections
           THEN /\ sending' = [sending EXCEPT !.index = @ + 1, !.attempted = @ \cup {c}]
                /\ IF c \in failing
                   THEN /\ active_connections' = active_connections \ {c}
                        /\ user_subscriptions' = Unsubscribed(user_subscriptions, c)
                        /\ disconnected' = disconnected \cup {c}
                   ELSE UNCHANGED <<active_connections, user_subscriptions, disconnected>>
           ELSE /\ sending' = [sending EXCEPT !.index = @ + 1]
                /\ UNCHANGED <<active_connections, user_subscriptions, disconnected>>
    /\ UNCHANGED <<failing, agentVars, cartVars>>

\* the index has passed the end of the list: the loop ends
send_to_user_returns ==
    /\ sending # Pending /\ sending.pc = "loop"
    /\ sending.index > Len(user_subscriptions[sending.user_id])
    /\ sending' = [sending EXCEPT !.pc = "done"]
    /\ UNCHANGED <<active_connections, user_subscriptions, failing, disconnected,
                   agentVars, cartVars>>

NextSocket == disconnect \/ send_to_user \/ send_personal_message \/ send_to_user_returns

SpecSocket == InitSocket /\ [][NextSocket]_vars

(***************************************************************************)
(* Text.  A Python str is a sequence of one-character strings.  None, as   *)
(* an Optional[str], is written <<>>: no name and no dosage is ever the    *)
(* empty string, and the code tests both by truthiness.  The two          *)
(* non-ASCII characters of simple_quantity are written "A~" (A with       *)
(* tilde, lower "a~") and "--" (the dash).                                *)
(***************************************************************************)
Digits == {"0", "1", "2", "3", "4", "5", "6", "7", "8", "9"}

DigitSeq == <<"0", "1", "2", "3", "4", "5", "6", "7", "8", "9">>

UpperSeq == <<"A", "B", "C", "D", "E", "F", "G", "H", "I", "J", "K", "L", "M", "N", "O", "P", "Q", "R", "S", "T", "U", "V", "W", "X", "Y", "Z", "A~">>

LowerSeq == <<"a", "b", "c", "d", "e", "f", "g", "h", "i", "j", "k", "l", "m", "n", "o", "p", "q", "r", "s", "t", "u", "v", "w", "x", "y", "z", "a~">>

UpperLetters == {UpperSeq[i] : i \in 1..Len(UpperSeq)}

LowerLetters == {LowerSeq[i] : i \in 1..Len(LowerSeq)}

LowerMap == [c \in UpperLetters |-> LowerSeq[CHOOSE i \in 1..Len(UpperSeq) : UpperSeq[i] = c]]

UpperMap == [c \in LowerLetters |-> UpperSeq[CHOOSE i \in 1..Len(LowerSeq) : LowerSeq[i] = c]]

LowerChar(c) == IF c \in UpperLetters THEN LowerMap[c] ELSE c

UpperChar(c) == IF c \in LowerLetters THEN UpperMap[c] ELSE c

IsDigit(c) == c \in Digits

IsSpace(c) == c \in {" ", "\t", "\n"}

IsLetter(c) == c \in LowerLetters \/ c \in UpperLetters

\* the class \w
IsWordChar(c) == IsLetter(c) \/ IsDigit(c) \/ c = "_"

\* str.lower()
lower(s) == [i \in 1..Len(s) |-> LowerChar(s[i])]

\* a mutant of the call: the name is stored as extracted
title_omitted(s) == s

\* str.title(): a letter is upper-cased after a character that is no letter
title(s) ==
    [i \in 1..Len(s) |-> IF i = 1 \/ ~IsLetter(s[i - 1]) THEN UpperChar(s[i]) ELSE LowerChar(s[i])]

\* v occurs in t at position i
StartsAt(t, i, v) == i >= 1 /\ i + Len(v) - 1 <= Len(t) /\ \A k \in 1..Len(v) : t[i + k - 1] = v[k]

\* v in t
Contains(t, v) == \E i \in 1..(Len(t) - Len(v) + 1) : StartsAt(t, i, v)

\* the first alternative of a regex alternation that matches at i, or <<>>
FirstMatching(t, i, alts) ==
    IF \E n \in 1..Len(alts) : StartsAt(t, i, alts[n])
    THEN alts[CHOOSE n \in 1..Len(alts) : StartsAt(t, i, alts[n]) /\ \A m \in 1..(n - 1) : ~StartsAt(t, i, alts[m])]
    ELSE <<>>

\* last index of the longest run of Test characters starting at i (i - 1: none)
RunEnd(s, i, Test(_)) ==
    IF \E j \in i..Len(s) : ~Test(s[j])
    THEN (CHOOSE j \in i..Len(s) : ~Test(s[j]) /\ \A k \in i..(j - 1) : Test(s[k])) - 1
    ELSE Len(s)

Min(S) == CHOOSE x \in S : \A y \in S : x <= y

Max(S) == CHOOSE x \in S : \A y \in S : x >= y

\* str.strip()
strip(s) ==
    LET first == RunEnd(s, 1, IsSpace) + 1
    IN  IF first > Len(s) THEN <<>>
        ELSE SubSeq(s, first, CHOOSE j \in first..Len(s) :
                                  ~IsSpace(s[j]) /\ \A k \in (j + 1)..Len(s) : IsSpace(s[k]))

\* str.split(): the maximal runs of non-space characters, in order
WordStarts(s) == {i \in 1..Len(s) : ~IsSpace(s[i]) /\ (i = 1 \/ IsSpace(s[i - 1]))}

NotSpace(c) == ~IsSpace(c)

RECURSIVE WordsFrom(_, _)
WordsFrom(s, starts) ==
    IF starts = {} THEN <<>>
    ELSE LET i == Min(starts)
         IN  <<SubSeq(s, i, RunEnd(s, i, NotSpace))>> \o WordsFrom(s, starts \ {i})

split(s) == WordsFrom(s, WordStarts(s))

(***************************************************************************)
(* int(): Python refuses a decimal string of more than 4300 digits         *)
(* (sys.int_info.default_max_str_digits) with ValueError.                  *)
(***************************************************************************)
INT_MAX_STR_DIGITS == 4300

DigitValue(c) == (CHOOSE n \in 1..10 : DigitSeq[n] = c) - 1

RECURSIVE IntValue(_)
IntValue(ds) == IF ds = <<>> THEN 0 ELSE 10 * IntValue(SubSeq(ds, 1, Len(ds) - 1)) + DigitValue(ds[Len(ds)])

int(ds) == IF Len(ds) > INT_MAX_STR_DIGITS THEN Raise("ValueError") ELSE Return(IntValue(ds))

(***************************************************************************)
(* COMMON_MEDICINES, in the order of the dict                              *)
(***************************************************************************)
COMMON_MEDICINES == <<
    \* paracetamol: paracetamol, tylenol, acetaminophen, paracitamol
    [name |-> <<"p", "a", "r", "a", "c", "e", "t", "a", "m", "o", "l">>,
     variants |-> <<<<"p", "a", "r", "a", "c", "e", "t", "a", "m", "o", "l">>,
                    <<"t", "y", "l", "e", "n", "o", "l">>,
                    <<"a", "c", "e", "t", "a", "m", "i", "n", "o", "p", "h", "e", "n">>,
                    <<"p", "a", "r", "a", "c", "i", "t", "a", "m", "o", "l">>>>],
    \* ibuprofen: ibuprofen, advil, motrin, brufen
    [name |-> <<"i", "b", "u", "p", "r", "o", "f", "e", "n">>,
     variants |-> <<<<"i", "b", "u", "p", "r", "o", "f", "e", "n">>,
                    <<"a", "d", "v", "i", "l">>,
                    <<"m", "o", "t", "r", "i", "n">>,
                    <<"b", "r", "u", "f", "e", "n">>>>],
    \* aspirin: aspirin, aspirine, acetylsalicylic
    [name |-> <<"a", "s", "p", "i", "r", "i", "n">>,
     variants |-> <<<<"a", "s", "p", "i", "r", "i", "n">>,
                    <<"a", "s", "p", "i", "r", "i", "n", "e">>,
                    <<"a", "c", "e", "t", "y", "l", "s", "a", "l", "i", "c", "y", "l", "i", "c">>>>],
    \* amoxicillin: amoxicillin, amoxycillin, amoxy
    [name |-> <<"a", "m", "o", "x", "i", "c", "i", "l", "l", "i", "n">>,
     variants |-> <<<<"a", "m", "o", "x", "i", "c", "i", "l", "l", "i", "n">>,
                    <<"a", "m", "o", "x", "y", "c", "i", "l", "l", "i", "n">>,
                    <<"a", "m", "o", "x", "y">>>>],
    \* metformin: metformin, glucophage
    [name |-> <<"m", "e", "t", "f", "o", "r", "m", "i", "n">>,
     variants |-> <<<<"m", "e", "t", "f", "o", "r", "m", "i", "n">>,
                    <<"g", "l", "u", "c", "o", "p", "h", "a", "g", "e">>>>],
    \* omeprazole: omeprazole, prilosec
    [name |-> <<"o", "m", "e", "p", "r", "a", "z", "o", "l", "e">>,
     variants |-> <<<<"o", "m", "e", "p", "r", "a", "z", "o", "l", "e">>,
                    <<"p", "r", "i", "l", "o", "s", "e", "c">>>>],
    \* lisinopril: lisinopril, prinivil, zestril
    [name |-> <<"l", "i", "s", "i", "n", "o", "p", "r", "i", "l">>,
     variants |-> <<<<"l", "i", "s", "i", "n", "o", "p", "r", "i", "l">>,
                    <<"p", "r", "i", "n", "i", "v", "i", "l">>,
                    <<"z", "e", "s", "t", "r", "i", "l">>>>],
    \* atorvastatin: atorvastatin, lipitor
    [name |-> <<"a", "t", "o", "r", "v", "a", "s", "t", "a", "t", "i", "n">>,
     variants |-> <<<<"a", "t", "o", "r", "v", "a", "s", "t", "a", "t", "i", "n">>,
                    <<"l", "i", "p", "i", "t", "o", "r">>>>],
    \* amlodipine: amlodipine, norvasc
    [name |-> <<"a", "m", "l", "o", "d", "i", "p", "i", "n", "e">>,
     variants |-> <<<<"a", "m", "l", "o", "d", "i", "p", "i", "n", "e">>,
                    <<"n", "o", "r", "v", "a", "s", "c">>>>],
    \* metoprolol: metoprolol, lopressor
    [name |-> <<"m", "e", "t", "o", "p", "r", "o", "l", "o", "l">>,
     variants |-> <<<<"m", "e", "t", "o", "p", "r", "o", "l", "o", "l">>,
                    <<"l", "o", "p", "r", "e", "s", "s", "o", "r">>>>],
    \* losartan: losartan, cozaar
    [name |-> <<"l", "o", "s", "a", "r", "t", "a", "n">>,
     variants |-> <<<<"l", "o", "s", "a", "r", "t", "a", "n">>,
                    <<"c", "o", "z", "a", "a", "r">>>>],
    \* gabapentin: gabapentin, neurontin
    [name |-> <<"g", "a", "b", "a", "p", "e", "n", "t", "i", "n">>,
     variants |-> <<<<"g", "a", "b", "a", "p", "e", "n", "t", "i", "n">>,
                    <<"n", "e", "u", "r", "o", "n", "t", "i", "n">>>>],
    \* hydrochlorothiazide: hydrochlorothiazide, hctz
    [name |-> <<"h", "y", "d", "r", "o", "c", "h", "l", "o", "r", "o", "t", "h", "i", "a", "z", "i", "d", "e">>,
     variants |-> <<<<"h", "y", "d", "r", "o", "c", "h", "l", "o", "r", "o", "t", "h", "i", "a", "z", "i", "d", "e">>,
                    <<"h", "c", "t", "z">>>>],
    \* sertraline: sertraline, zoloft
    [name |-> <<"s", "e", "r", "t", "r", "a", "l", "i", "n", "e">>,
     variants |-> <<<<"s", "e", "r", "t", "r", "a", "l", "i", "n", "e">>,
                    <<"z", "o", "l", "o", "f", "t">>>>],
    \* simvastatin: simvastatin, zocor
    [name |-> <<"s", "i", "m", "v", "a", "s", "t", "a", "t", "i", "n">>,
     variants |-> <<<<"s", "i", "m", "v", "a", "s", "t", "a", "t", "i", "n">>,
                    <<"z", "o", "c", "o", "r">>>>],
    \* vitamin d: vitamin d, vit d, cholecalciferol
    [name |-> <<"v", "i", "t", "a", "m", "i", "n", " ", "d">>,
     variants |-> <<<<"v", "i", "t", "a", "m", "i", "n", " ", "d">>,
                    <<"v", "i", "t", " ", "d">>,
                    <<"c", "h", "o", "l", "e", "c", "a", "l", "c", "i", "f", "e", "r", "o", "l">>>>],
    \* vitamin c: vitamin c, vit c, ascorbic acid
    [name |-> <<"v", "i", "t", "a", "m", "i", "n", " ", "c">>,
     variants |-> <<<<"v", "i", "t", "a", "m", "i", "n", " ", "c">>,
                    <<"v", "i", "t", " ", "c">>,
                    <<"a", "s", "c", "o", "r", "b", "i", "c", " ", "a", "c", "i", "d">>>>],
    \* insulin: insulin, humalog, novolog
    [name |-> <<"i", "n", "s", "u", "l", "i", "n">>,
     variants |-> <<<<"i", "n", "s", "u", "l", "i", "n">>,
                    <<"h", "u", "m", "a", "l", "o", "g">>,
                    <<"n", "o", "v", "o", "l", "o", "g">>>>],
    \* levothyroxine: levothyroxine, synthroid
    [name |-> <<"l", "e", "v", "o", "t", "h", "y", "r", "o", "x", "i", "n", "e">>,
     variants |-> <<<<"l", "e", "v", "o", "t", "h", "y", "r", "o", "x", "i", "n", "e">>,
                    <<"s", "y", "n", "t", "h", "r", "o", "i", "d">>>>],
    \* clopidogrel: clopidogrel, plavix
    [name |-> <<"c", "l", "o", "p", "i", "d", "o", "g", "r", "e", "l">>,
     variants |-> <<<<"c", "l", "o", "p", "i", "d", "o", "g", "r", "e", "l">>,
                    <<"p", "l", "a", "v", "i", "x">>>>]
>>

\* any(med in text for meds in COMMON_MEDICINES.values() for med in meds)
MentionsKnown(t, entry) == \E v \in 1..Len(entry.variants) : Contains(t, entry.variants[v])

MentionsKnownMedicine(t) == \E n \in 1..Len(COMMON_MEDICINES) : MentionsKnown(t, COMMON_MEDICINES[n])

\* medicine_name in COMMON_MEDICINES
IsCanonicalName(name) == \E n \in 1..Len(COMMON_MEDICINES) : COMMON_MEDICINES[n].name = name

(***************************************************************************)
(* The compiled patterns of __init__ (re.IGNORECASE: matched on the        *)
(* lowered text).  A match of \d+... that starts inside a run of digits    *)
(* implies one from the start of the run, so the leftmost match of a       *)
(* search starts at the start of a run.                                    *)
(***************************************************************************)
\* (mg|g|ml|mcg|iu|units?)
DOSAGE_UNITS == <<<<"m", "g">>, <<"g">>, <<"m", "l">>, <<"m", "c", "g">>, <<"i", "u">>, <<"u", "n", "i", "t", "s">>, <<"u", "n", "i", "t">>>>

\* (tablet|capsule|pill|strip|bottle|pack|box|count|pieces?|tabs?|caps?)
QUANTITY_UNITS == <<<<"t", "a", "b", "l", "e", "t">>, <<"c", "a", "p", "s", "u", "l", "e">>, <<"p", "i", "l", "l">>, <<"s", "t", "r", "i", "p">>, <<"b", "o", "t", "t", "l", "e">>,
                    <<"p", "a", "c", "k">>, <<"b", "o", "x">>, <<"c", "o", "u", "n", "t">>, <<"p", "i", "e", "c", "e">>, <<"t", "a", "b">>, <<"c", "a", "p">>>>

\* (?:of|x|A~--)?
SIMPLE_LINKS == <<<<"o", "f">>, <<"x">>, <<"a~", "--">>>>

\* (?=tablet|capsule|pill|tab|cap)
SIMPLE_LOOKAHEAD == <<<<"t", "a", "b", "l", "e", "t">>, <<"c", "a", "p", "s", "u", "l", "e">>, <<"p", "i", "l", "l">>, <<"t", "a", "b">>, <<"c", "a", "p">>>>

RunStarts(t) == {i \in 1..Len(t) : IsDigit(t[i]) /\ (i = 1 \/ ~IsDigit(t[i - 1]))}

\* \b before position i, which holds a word character
BoundaryBefore(t, i) == i = 1 \/ ~IsWordChar(t[i - 1])

\* \b after position j, which holds a word character
BoundaryAfter(t, j) == j = Len(t) \/ ~IsWordChar(t[j + 1])

\* end of (\d+(?:\.\d+)?) from i
FractionEnd(t, j) ==
    IF j + 2 <= Len(t) /\ t[j + 1] = "." /\ IsDigit(t[j + 2]) THEN RunEnd(t, j + 2, IsDigit) ELSE j

AmountEnd(t, i) == FractionEnd(t, RunEnd(t, i, IsDigit))

\* dosage_pattern matched at i: amount and unit, or <<>>
WithUnit(amount, unit) == IF unit = <<>> THEN <<>> ELSE amount \o unit

\* the amount t[i..j] and the unit after it
DosageFrom(t, i, j) ==
    WithUnit(SubSeq(t, i, j), FirstMatching(t, RunEnd(t, j + 1, IsSpace) + 1, DOSAGE_UNITS))

DosageAt(t, i) == DosageFrom(t, i, AmountEnd(t, i))

\* quantity_pattern matches at i
QuantityAt(t, i) ==
    FirstMatching(t, RunEnd(t, RunEnd(t, i, IsDigit) + 1, IsSpace) + 1, QUANTITY_UNITS) # <<>>

\* simple_quantity matches at i
\* the lookahead holds at k after the optional link, or at k itself
LookaheadFrom(t, k) ==
    \/ FirstMatching(t, RunEnd(t, k + Len(FirstMatching(t, k, SIMPLE_LINKS)), IsSpace) + 1,
                     SIMPLE_LOOKAHEAD) # <<>>
    \/ FirstMatching(t, k, SIMPLE_LOOKAHEAD) # <<>>

SimpleQuantityAt(t, i) ==
    /\ BoundaryBefore(t, i)
    /\ LookaheadFrom(t, RunEnd(t, RunEnd(t, i, IsDigit) + 1, IsSpace) + 1)

DigitRun(t, i) == SubSeq(t, i, RunEnd(t, i, IsDigit))

(***************************************************************************)
(* _extract_medicine_name                                                  *)
(***************************************************************************)
\* where in t a variant of the entry first occurs
FirstOccurrence(t, entry) ==
    Min({i \in 1..Len(t) : \E v \in 1..Len(entry.variants) : StartsAt(t, i, entry.variants[v])})

\* a mutant of the lookup: the entry whose variant stands leftmost in t
KnownName_leftmost(t) ==
    IF MentionsKnownMedicine(t)
    THEN COMMON_MEDICINES[CHOOSE n \in 1..Len(COMMON_MEDICINES) :
             /\ MentionsKnown(t, COMMON_MEDICINES[n])
             /\ \A m \in 1..Len(COMMON_MEDICINES) :
                    MentionsKnown(t, COMMON_MEDICINES[m])
                    => \/ FirstOccurrence(t, COMMON_MEDICINES[n]) < FirstOccurrence(t, COMMON_MEDICINES[m])
                       \/ /\ FirstOccurrence(t, COMMON_MEDICINES[n]) = FirstOccurrence(t, COMMON_MEDICINES[m])
                          /\ n <= m].name
    ELSE <<>>

\* the first table entry, in table order, one of whose variants is in t
KnownName(t) ==
    IF MentionsKnownMedicine(t)
    THEN COMMON_MEDICINES[CHOOSE n \in 1..Len(COMMON_MEDICINES) :
             /\ MentionsKnown(t, COMMON_MEDICINES[n])
             /\ \A m \in 1..(n - 1) : ~MentionsKnown(t, COMMON_MEDICINES[m])].name
    ELSE <<>>

\* any(unit in words[i+1].lower() for unit in ['mg', 'g', 'ml'])
HEURISTIC_UNITS == <<<<"m", "g">>, <<"g">>, <<"m", "l">>>>

LooksLikeUnit(w) == \E n \in 1..Len(HEURISTIC_UNITS) : Contains(lower(w), HEURISTIC_UNITS[n])

\* re.sub(r'[^\w\s]', '', word)
CleanWord(w) == SelectSeq(w, IsWordChar)

\* word i is taken as a name by the loop of lines 138-144
Candidate(words, i) ==
    /\ words[i][1] \in UpperLetters \/ (i < Len(words) /\ LooksLikeUnit(words[i + 1]))
    /\ Len(CleanWord(words[i])) > 2

\* the first candidate among the words, cleaned and lowered, or <<>>
FirstCandidate(words, hits) ==
    IF hits = {} THEN <<>> ELSE lower(CleanWord(words[Min(hits)]))

Candidates(words) == {i \in 1..Len(words) : Candidate(words, i)}

HeuristicAmong(words) == FirstCandidate(words, Candidates(words))

HeuristicName(text) == HeuristicAmong(split(text))

KnownOrHeuristic(known, text) == IF known # <<>> THEN known ELSE HeuristicName(text)

_extract_medicine_name(text) == KnownOrHeuristic(KnownName(lower(text)), text)

(***************************************************************************)
(* _extract_dosage, _extract_quantity, _extract_form                       *)
(***************************************************************************)
\* the leftmost match of dosage_pattern among the matches at hits
FirstDosage(t, hits) == IF hits = {} THEN <<>> ELSE DosageAt(t, Min(hits))

DosageIn(t) == FirstDosage(t, {i \in RunStarts(t) : DosageAt(t, i) # <<>>})

_extract_dosage(text) == DosageIn(lower(text))

DEFAULT_QUANTITY == 30

\* the numbers of re.findall(r'\b(\d+)\b', text)
StandaloneRuns(t) ==
    {i \in RunStarts(t) : BoundaryBefore(t, i) /\ BoundaryAfter(t, RunEnd(t, i, IsDigit))}

\* lines 169-178: the largest standalone number in 1..1000, else 30
LargestOrDefault(nums) == Return(IF nums = {} THEN DEFAULT_QUANTITY ELSE Max(nums))

LargestReasonable(t, runs) ==
    IF \E i \in runs : int(DigitRun(t, i)).kind = "raise" THEN Raise("ValueError")
    ELSE LargestOrDefault({int(DigitRun(t, i)).value : i \in runs} \cap (1..1000))

StandaloneQuantity(t) == LargestReasonable(t, StandaloneRuns(t))

\* lines 159-178, given where quantity_pattern and simple_quantity match
QuantityAmong(t, specific, simple) ==
    IF specific # {} THEN int(DigitRun(t, Min(specific)))
    ELSE IF simple # {} THEN int(DigitRun(t, Min(simple)))
    ELSE StandaloneQuantity(t)

QuantityIn(t) ==
    QuantityAmong(t, {i \in RunStarts(t) : QuantityAt(t, i)},
                     {i \in RunStarts(t) : SimpleQuantityAt(t, i)})

_extract_quantity(text) == QuantityIn(lower(text))

FORMS == <<
    [form |-> "tablet", keywords |-> <<<<"t", "a", "b", "l", "e", "t">>, <<"t", "a", "b">>, <<"p", "i", "l", "l">>>>],
    [form |-> "capsule", keywords |-> <<<<"c", "a", "p", "s", "u", "l", "e">>, <<"c", "a", "p">>>>],
    [form |-> "syrup", keywords |-> <<<<"s", "y", "r", "u", "p">>, <<"l", "i", "q", "u", "i", "d">>, <<"s", "o", "l", "u", "t", "i", "o", "n">>>>],
    [form |-> "injection", keywords |-> <<<<"i", "n", "j", "e", "c", "t", "i", "o", "n">>, <<"i", "n", "j", "e", "c", "t">>, <<"v", "i", "a", "l">>>>],
    [form |-> "cream", keywords |-> <<<<"c", "r", "e", "a", "m">>, <<"o", "i", "n", "t", "m", "e", "n", "t">>, <<"g", "e", "l">>>>],
    [form |-> "drops", keywords |-> <<<<"d", "r", "o", "p", "s">>, <<"e", "y", "e", " ", "d", "r", "o", "p", "s">>, <<"e", "a", "r", " ", "d", "r", "o", "p", "s">>>>],
    [form |-> "inhaler", keywords |-> <<<<"i", "n", "h", "a", "l", "e", "r">>, <<"p", "u", "f", "f">>>>],
    [form |-> "patch", keywords |-> <<<<"p", "a", "t", "c", "h">>, <<"t", "r", "a", "n", "s", "d", "e", "r", "m", "a", "l">>>>] >>

HasForm(t, f) == \E k \in 1..Len(f.keywords) : Contains(t, f.keywords[k])

_extract_form(text) ==
    LET t == lower(text)
    IN  IF \E n \in 1..Len(FORMS) : HasForm(t, FORMS[n])
        THEN FORMS[CHOOSE n \in 1..Len(FORMS) : HasForm(t, FORMS[n]) /\ \A m \in 1..(n - 1) : ~HasForm(t, FORMS[m])].form
        ELSE "tablet"

(***************************************************************************)
(* _calculate_confidence of the parser, in tenths                          *)
(***************************************************************************)
parser_calculate_confidence(medicine_name, dosage, quantity) ==
    LET named == IF medicine_name # <<>>
                 THEN 4 + (IF IsCanonicalName(medicine_name) THEN 2 ELSE 0)
                 ELSE 0
        dosed == IF dosage # <<>> THEN 2 ELSE 0
        counted == IF quantity # 0 /\ quantity # DEFAULT_QUANTITY THEN 2 ELSE 0
        score == named + dosed + counted
    IN  IF score < 10 THEN score ELSE 10

(***************************************************************************)
(* parse_message                                                           *)
(***************************************************************************)
GREETINGS == <<<<"h", "e", "l", "l", "o">>, <<"h", "i">>, <<"h", "e", "y">>, <<"g", "o", "o", "d", " ", "m", "o", "r", "n", "i", "n", "g">>, <<"g", "o", "o", "d", " ", "a", "f", "t", "e", "r", "n", "o", "o", "n">>,
               <<"g", "o", "o", "d", " ", "e", "v", "e", "n", "i", "n", "g">>>>

\* any(greet in message_lower for greet in greetings)
HasGreeting(t) == \E n \in 1..Len(GREETINGS) : Contains(t, GREETINGS[n])

\* a mutant of the condition: the scan for known medicines is lost
IsGreeting_without_medicine_scan(message_lower) == HasGreeting(message_lower)

\* the condition of line 68
IsGreeting(message_lower) == HasGreeting(message_lower) /\ ~MentionsKnownMedicine(message_lower)

\* length of the match of \band\b|\balso\b|,\s*(?=\w) at i, 0 when none
SeparatorAt(s, i) ==
    IF StartsAt(s, i, <<"a", "n", "d">>) /\ BoundaryBefore(s, i) /\ BoundaryAfter(s, i + 2) THEN 3
    ELSE IF StartsAt(s, i, <<"a", "l", "s", "o">>) /\ BoundaryBefore(s, i) /\ BoundaryAfter(s, i + 3) THEN 4
    ELSE IF s[i] = ","
         THEN LET j == RunEnd(s, i + 1, IsSpace) + 1
              IN  IF j <= Len(s) /\ IsWordChar(s[j]) THEN j - i ELSE 0
    ELSE 0

\* re.split: the pieces between the matches, which cannot overlap
RECURSIVE SplitFrom(_, _, _)
SplitFrom(s, from, seps) ==
    IF seps = {} THEN <<SubSeq(s, from, Len(s))>>
    ELSE LET i == Min(seps)
         IN  <<SubSeq(s, from, i - 1)>> \o SplitFrom(s, i + SeparatorAt(s, i), seps \ {i})

Segments(s) == SplitFrom(s, 1, {i \in 1..Len(s) : SeparatorAt(s, i) > 0})

\* one pass of the loop of lines 80-108: no request, one request, or the
\* exception int() raises
\* lines 90-108: the request appended for a named segment
MedicineRequest(segment, medicine_name, dosage, quantity) ==
    IF quantity.kind = "raise" THEN quantity
    ELSE Return(<< [name |-> title(medicine_name),
                    dosage |-> dosage,
                    quantity |-> quantity.value,
                    form |-> _extract_form(segment),
                    confidence |-> parser_calculate_confidence(medicine_name, dosage, quantity.value)] >>)

\* lines 87-88: a segment without a name is skipped
NamedSegment(segment, medicine_name) ==
    IF medicine_name = <<>> THEN Return(<<>>)
    ELSE MedicineRequest(segment, medicine_name, _extract_dosage(segment), _extract_quantity(segment))

\* lines 82-86: a segment of fewer than 3 characters is skipped
StrippedSegment(segment) ==
    IF Len(segment) < 3 THEN Return(<<>>)
    ELSE NamedSegment(segment, _extract_medicine_name(segment))

ParseSegment(raw) == StrippedSegment(strip(raw))

\* a mutant of the loop: a request is put before those already collected
AppendRequests_prepended(first, rest) ==
    IF first.kind = "raise" THEN first
    ELSE IF rest.kind = "raise" THEN rest
    ELSE Return(rest.value \o first.value)

\* the loop stops at the first segment that raises
AppendRequests(first, rest) ==
    IF first.kind = "raise" THEN first
    ELSE IF rest.kind = "raise" THEN rest
    ELSE Return(first.value \o rest.value)

RECURSIVE ParseSegments(_)
ParseSegments(segments) ==
    IF segments = <<>> THEN Return(<<>>)
    ELSE AppendRequests(ParseSegment(segments[1]), ParseSegments(Tail(segments)))

RECURSIVE SumConfidence(_)
SumConfidence(medicines) ==
    IF medicines = <<>> THEN 0 ELSE medicines[1].confidence + SumConfidence(Tail(medicines))

\* which text _generate_response builds
ResponseKind(medicines) ==
    IF medicines = <<>> THEN "clarify"
    ELSE IF Len(medicines) > 1 THEN "list"
    ELSE IF medicines[1].confidence < 7 THEN "confirm_single" ELSE "continue_single"

\* the dict of lines 69-75
GreetResult ==
    [medicines |-> <<>>, requires_clarification |-> FALSE, next_action |-> "greet",
     confidence |-> Frac(1, 1), response |-> "greeting"]

\* the dict of lines 110-124; confidence is the mean of tenths, as a fraction of 1
ParsedResult(medicines) ==
    [medicines |-> medicines,
     requires_clarification |-> (Len(medicines) = 0),
     next_action |-> IF medicines # <<>> THEN "confirm" ELSE "ask_details",
     confidence |-> IF medicines # <<>> THEN Frac(SumConfidence(medicines), 10 * Len(medicines))
                    ELSE Frac(0, 1),
     response |-> ResponseKind(medicines)]

\* lines 110-124, reached when no segment raised
Collected(medicines) ==
    IF medicines.kind = "raise" THEN medicines ELSE Return(ParsedResult(medicines.value))

\* parse_message has no try block: what int() raises leaves it
parse_message(msg) ==
    IF IsGreeting(lower(msg)) THEN Return(GreetResult)
    ELSE Collected(ParseSegments(Segments(msg)))

(***************************************************************************)
(* Messages: up to MaxWords words of a vocabulary joined by single spaces  *)
(* (a comma joins without one), and the messages of the tests.             *)
(***************************************************************************)
MaxWords == 3

Vocabulary ==
    { <<"h", "i">>,
      <<"t", "h", "i", "s">>,
      <<"A", "s", "p", "i", "r", "i", "n">>,
      <<"t", "y", "l", "e", "n", "o", "l">>,
      <<"m", "g">>,
      <<"5", "0", "0", "m", "g">>,
      <<"3", "0">>,
      <<"0">>,
      <<"t", "a", "b", "l", "e", "t", "s">>,
      <<"a", "n", "d">>,
      <<",">> }

Join(m, w) == IF m = <<>> \/ w = <<",">> THEN m \o w ELSE m \o <<" ">> \o w

RECURSIVE Composed(_)
Composed(n) ==
    IF n = 0 THEN {<<>>}
    ELSE LET shorter == Composed(n - 1)
         IN  shorter \cup {Join(m, w) : m \in shorter, w \in Vocabulary}

\* a known medicine followed by a number too long for int()
LongNumberMessage ==
    <<"A", "s", "p", "i", "r", "i", "n", " ">> \o [i \in 1..(INT_MAX_STR_DIGITS + 1) |-> "9"] \o <<" ", "t", "a", "b", "l", "e", "t", "s">>

SampleMessages ==
    { <<"I", " ", "n", "e", "e", "d", " ", "P", "a", "r", "a", "c", "e", "t", "a", "m", "o", "l", " ", "5", "0", "0", "m", "g", ",", " ", "3", "0", " ", "t", "a", "b", "l", "e", "t", "s">>,
      <<"I", " ", "n", "e", "e", "d", " ", "s", "o", "m", "e", "t", "h", "i", "n", "g", " ", "f", "o", "r", " ", "h", "e", "a", "d", "a", "c", "h", "e">>,
      <<"H", "e", "l", "l", "o", "!">>,
      <<"C", "a", "n", " ", "y", "o", "u", " ", "a", "l", "s", "o", " ", "a", "d", "d", " ", "A", "s", "p", "i", "r", "i", "n", " ", "1", "0", "0", "m", "g", ",", " ", "5", "0", " ", "t", "a", "b", "l", "e", "t", "s", "?">>,
      <<"M", "a", "k", "e", " ", "i", "t", " ", "I", "b", "u", "p", "r", "o", "f", "e", "n", " ", "2", "0", "0", "m", "g", ",", " ", "2", "4", " ", "t", "a", "b", "l", "e", "t", "s">>,
      <<"I", " ", "a", "l", "s", "o", " ", "n", "e", "e", "d", " ", "A", "m", "o", "x", "i", "c", "i", "l", "l", "i", "n", " ", "5", "0", "0", "m", "g", " ", "c", "a", "p", "s", "u", "l", "e", "s", ",", " ", "2", "0", " ", "c", "o", "u", "n", "t", ",", " ", "a", "n", "d", " ", "V", "i", "t", "a", "m", "i", "n", " ", "D", " ", "5", "0", "0", "0", " ", "I", "U">>,
      <<"I", " ", "n", "e", "e", "d", " ", "P", "a", "r", "a", "c", "i", "t", "a", "m", "o", "l", " ", "a", "n", "d", " ", "A", "s", "p", "i", "r", "i", "n", "e">>,
      <<"I", " ", "n", "e", "e", "d", " ", "M", "e", "t", "f", "o", "r", "m", "i", "n", " ", "8", "5", "0", "m", "g">>,
      <<"I", " ", "n", "e", "e", "d", " ", "P", "a", "r", "a", "c", "e", "t", "a", "m", "o", "l", " ", "a", "n", "d", " ", "a", "l", "s", "o", " ", "s", "o", "m", "e", " ", "A", "s", "p", "i", "r", "i", "n", " ", "b", "i", "t", "t", "e">>,
      <<"A", "s", "p", "i", "r", "i", "n", " ", "a", "n", "d", " ", "t", "y", "l", "e", "n", "o", "l">>,
      <<"A", "s", "p", "i", "r", "i", "n", " ", "3", "0", " ", "m", "g">>,
      <<"n", "e", "e", "d", " ", "Z", "y", "r", "t", "e", "c">>,
      <<"A", "s", "p", "i", "r", "i", "n", " ", "1", "0", "0", "m", "g", ",", " ", "5", "0", " ", "t", "a", "b", "l", "e", "t", "s">>,
      <<"A", "s", "p", "-", "i", "r", "i", "n", " ", "5", "0", "0", "m", "g">>,
      <<"A", "s", "p", "i", "r", "i", "n", " ", "5", "0", "0", " ", "m", "g">>,
      <<" ", " ", " ">>,
      <<"!", "!", "!">>,
      LongNumberMessage }

Messages == Composed(MaxWords) \cup SampleMessages

InitParser ==
    /\ message \in Messages
    /\ result = Pending
    /\ ppc = "start"
    /\ ForecastIdle
    /\ BatchIdle
    /\ RoutesIdle

CallParseMessage ==
    /\ ppc = "start"
    /\ result' = parse_message(message)
    /\ ppc' = "parsed"
    /\ UNCHANGED <<order_history, today, prediction, notify, pc, message,
                   all_order_history, predictions, bpc, cartVars, socketVars>>

NextParser == CallParseMessage

SpecParser == InitParser /\ [][NextParser]_vars

(***************************************************************************)
(* Properties of the forecaster (SpecForecast)                             *)
(***************************************************************************)
IsPrediction(p) == p.kind = "prediction"

\* the frame as predict_depletion sees it
SortedFrame(h) == sort_values(to_datetime(h))

\* the mean consumption rate of the history is strictly positive: a positive
\* number, or the inf that the code computes from a gap of zero days
PositiveRate(h) == _calculate_consumption_rate(SortedFrame(h)).kind # "zero"

\* the mean consumption rate of the history is a positive number
FinitePositiveRate(h) == _calculate_consumption_rate(SortedFrame(h)).kind = "fin"

\* the history qualifies for a prediction under the claim C1
Qualifies(h) == Len(h) >= PREDICTION_MIN_ORDERS /\ ValidHistory(h) /\ PositiveRate(h)

\* the projected depletion date is a date Python can represent
DepletionRepresentable(h) ==
    LET df == SortedFrame(h)
        days == days_to_deplete(df[Len(df)].quantity, _calculate_consumption_rate(df))
    IN  days <= TIMEDELTA_MAX_DAYS /\ df[Len(df)].order_date + days <= DATE_MAX_ORDINAL

\* C1 as stated: every history of at least MIN_ORDERS valid entries with a
\* strictly positive mean rate yields a prediction whose suggested reorder
\* date is no later than the predicted depletion date and no earlier than
\* today.  (Read narrowly: the rate is a positive number, not inf.)
C1_Original ==
    pc = "predicted" /\ Qualifies(order_history) /\ FinitePositiveRate(order_history)
    => /\ IsPrediction(prediction.value)
       /\ prediction.value.suggested_reorder_date.ord <= prediction.value.predicted_depletion_date.ord
       /\ prediction.value.suggested_reorder_date.ord >= today

\* C1 as amended: such a history, when its projected depletion date is
\* representable, yields a prediction whose suggested reorder date is no
\* earlier than today, and no later than the predicted depletion date
\* whenever that date is not already past.
C1_ReorderDateBounds ==
    pc = "predicted" /\ Qualifies(order_history) /\ DepletionRepresentable(order_history)
    => /\ IsPrediction(prediction.value)
       /\ prediction.value.suggested_reorder_date.ord >= today
       /\ (prediction.value.predicted_depletion_date.ord >= today
           => prediction.value.suggested_reorder_date.ord
                  <= prediction.value.predicted_depletion_date.ord)

\* a qualifying history whose suggestion was clamped to today, ahead of a
\* depletion date still to come
C1_Witness ==
    /\ pc = "predicted" /\ Qualifies(order_history) /\ IsPrediction(prediction.value)
    /\ prediction.value.suggested_reorder_date.ord = today
    /\ prediction.value.predicted_depletion_date.ord > today
    /\ prediction.value.average_consumption_rate.kind = "fin"

\* the fields of a DepletionPrediction (historical_data, the caller's own
\* list handed back, is left out of the comparison)
Core(p) ==
    IF IsPrediction(p)
    THEN [average_consumption_rate |-> p.average_consumption_rate,
          last_order_date |-> p.last_order_date,
          last_order_quantity |-> p.last_order_quantity,
          predicted_depletion_date |-> p.predicted_depletion_date,
          suggested_reorder_date |-> p.suggested_reorder_date,
          suggested_quantity |-> p.suggested_quantity,
          confidence |-> p.confidence,
          confidence_score |-> p.confidence_score]
    ELSE p

Reordered(h, perm) == [i \in 1..Len(h) |-> h[perm[i]]]

\* C2: the result of predict_depletion is the same for every ordering of
\* the same multiset of history entries.
C2_OrderIndependent ==
    pc = "predicted" /\ ValidHistory(order_history)
    => \A perm \in Permutations(1..Len(order_history)) :
           Core(predict_depletion(Reordered(order_history, perm), today).value)
               = Core(prediction.value)

\* C3: a history of fewer than MIN_ORDERS entries yields none.
C3_TooFewOrders ==
    pc = "predicted" /\ Len(order_history) < PREDICTION_MIN_ORDERS => prediction = Return(None)

\* two valid orders on different dates, one short of the minimum: none
C3_Witness ==
    /\ pc = "predicted" /\ Len(order_history) = PREDICTION_MIN_ORDERS - 1
    /\ ValidHistory(order_history)
    /\ order_history[1].order_date # order_history[2].order_date
    /\ prediction = Return(None)

\* should_notify_user can read the record: a depletion date and a level
Readable(p) ==
    /\ IsPrediction(p)
    /\ "predicted_depletion_date" \in DOMAIN p
    /\ "ord" \in DOMAIN p.predicted_depletion_date
    /\ "confidence" \in DOMAIN p

DaysUntil(p) == p.predicted_depletion_date.ord - today

WellFormed(p) ==
    /\ IsPrediction(p)
    /\ DOMAIN p = {"kind", "average_consumption_rate", "last_order_date", "last_order_quantity",
                   "predicted_depletion_date", "suggested_reorder_date", "suggested_quantity",
                   "confidence", "confidence_score", "historical_data"}
    /\ p.average_consumption_rate.kind \in {"fin", "inf"}
    /\ \A d \in {p.last_order_date, p.predicted_depletion_date, p.suggested_reorder_date} :
           DOMAIN d = {"ord"} /\ d.ord \in 1..DATE_MAX_ORDINAL
    /\ p.last_order_quantity \in Int
    /\ p.suggested_quantity \in Int
    /\ p.confidence \in {"high", "medium", "low"}
    /\ p.confidence_score \in 0..100

\* C6: no call of the forecaster raises: predict_depletion returns a
\* well-formed prediction or none, and should_notify_user returns a boolean,
\* false for a record it cannot read.
C6_NeverRaises ==
    /\ pc = "predicted"
       => prediction.kind = "return" /\ (prediction.value = None \/ WellFormed(prediction.value))
    /\ pc = "notified"
       => /\ notify.kind = "return"
          /\ notify.value \in BOOLEAN
          /\ (~Readable(prediction.value) => notify.value = FALSE)

\* a history on which the body raised, answered with none, and then that
\* none handed to should_notify_user, answered with false
C6_Witness ==
    /\ pc = "notified"
    /\ PredictBody(order_history, today).kind = "raise"
    /\ prediction = Return(None)
    /\ NotifyBody(prediction.value, today).kind = "raise"
    /\ notify = Return(FALSE)

(***************************************************************************)
(* Properties of the parser (SpecParser)                                   *)
(***************************************************************************)
\* greeting n stands in t as a token: with a word boundary on each side
GreetingTokenAt(t, i, n) ==
    StartsAt(t, i, GREETINGS[n]) /\ BoundaryBefore(t, i) /\ BoundaryAfter(t, i + Len(GREETINGS[n]) - 1)

HasGreetingToken(t) == \E n \in 1..Len(GREETINGS) : \E i \in 1..Len(t) : GreetingTokenAt(t, i, n)

Medicines == result.value.medicines

\* C5: parse_message raises for no message.
C5_NeverRaises == ppc = "parsed" => result.kind = "return"

\* a word is a dosage-unit word: mg, g or ml, alone or after an amount
DosageUnitWord(w) ==
    LET c == lower(CleanWord(w))
    IN  \E n \in 1..Len(HEURISTIC_UNITS) : SubSeq(c, RunEnd(c, 1, IsDigit) + 1, Len(c)) = HEURISTIC_UNITS[n]

\* the message has a capitalized word, or a word before a dosage-unit word,
\* of more than two characters
HasCandidateWord(msg) ==
    LET words == split(msg)
    IN  \E i \in 1..Len(words) :
            /\ Len(CleanWord(words[i])) > 2
            /\ words[i][1] \in UpperLetters \/ (i < Len(words) /\ DosageUnitWord(words[i + 1]))

HeadacheMessage == <<"I", " ", "n", "e", "e", "d", " ", "s", "o", "m", "e", "t", "h", "i", "n", "g", " ", "f", "o", "r", " ", "h", "e", "a", "d", "a", "c", "h", "e">>

\* C7: a message with no greeting token, no known medicine and no candidate
\* word is answered with requires_clarification and no medicines.
C7_ClarificationWhenNothingFound ==
    /\ ppc = "parsed"
    /\ ~HasGreetingToken(lower(message))
    /\ ~MentionsKnownMedicine(lower(message))
    /\ ~HasCandidateWord(message)
    => /\ result.kind = "return"
       /\ result.value.requires_clarification = TRUE
       /\ result.value.medicines = <<>>

\* C8: a greeting token and no known medicine anywhere in the message give
\* greet with confidence 1.0 and no medicines; a known medicine anywhere in
\* the message keeps the parser off the greeting path.
C8_GreetingShortCircuit ==
    ppc = "parsed"
    => /\ (HasGreetingToken(lower(message)) /\ ~MentionsKnownMedicine(lower(message))
           => /\ result.kind = "return"
              /\ result.value.next_action = "greet"
              /\ result.value.confidence = [num |-> 1, den |-> 1]
              /\ result.value.medicines = <<>>)
       /\ (MentionsKnownMedicine(lower(message)) /\ result.kind = "return"
           => result.value.next_action # "greet")

\* a greeting in one segment and a known medicine in another: not greeted
C8_Witness ==
    /\ ppc = "parsed" /\ result.kind = "return"
    /\ Len(Segments(message)) = 2
    /\ HasGreetingToken(lower(Segments(message)[1]))
    /\ ~MentionsKnownMedicine(lower(Segments(message)[1]))
    /\ MentionsKnownMedicine(lower(Segments(message)[2]))
    /\ result.value.next_action = "confirm"

ParacetamolMessage == <<"I", " ", "n", "e", "e", "d", " ", "P", "a", "r", "a", "c", "e", "t", "a", "m", "o", "l", " ", "5", "0", "0", "m", "g", ",", " ", "3", "0", " ", "t", "a", "b", "l", "e", "t", "s">>

\* the one request of ParacetamolMessage, but for its name
IsParacetamolOrder(m) ==
    /\ m.dosage = <<"5", "0", "0", "m", "g">>
    /\ m.quantity = 30
    /\ m.form = "tablet"
    /\ m.confidence >= 8

C10_PositiveQuantity ==
    ppc = "parsed" /\ result.kind = "return"
    => \A i \in 1..Len(Medicines) : Medicines[i].quantity >= 1

\* C11: in every result of parse_message, on the greeting path too,
\* requires_clarification is true exactly when the medicines list is empty.
C11_ClarificationIffEmpty ==
    ppc = "parsed" /\ result.kind = "return"
    => (result.value.requires_clarification <=> Medicines = <<>>)

(***************************************************************************)
(* Further properties of the forecaster (SpecForecast)                     *)
(***************************************************************************)
\* h holds at least MIN_ORDERS valid orders of q units each, d days apart
EquallySpaced(h, q, d) ==
    LET df == SortedFrame(h)
    IN  /\ Len(h) >= PREDICTION_MIN_ORDERS /\ ValidHistory(h)
        /\ \A i \in 1..Len(df) : df[i].quantity = q
        /\ \A i \in 2..Len(df) : df[i].order_date - df[i - 1].order_date = d

\* the gap of the first two orders by date (0 for a shorter history)
FirstGap(h) ==
    IF Len(h) >= 2 /\ ValidHistory(h)
    THEN SortedFrame(h)[2].order_date - SortedFrame(h)[1].order_date
    ELSE 0

\* the history of the state is equally spaced by a positive number of days
IsEquallySpaced ==
    /\ pc = "predicted" /\ order_history # <<>> /\ FirstGap(order_history) > 0
    /\ EquallySpaced(order_history, order_history[1].quantity, FirstGap(order_history))

\* C12 as stated: n >= MIN_ORDERS orders of q units spaced d > 0 days apart
\* give average_consumption_rate = q/d exactly, confidence_score 1.0 and
\* confidence HIGH.
C12_Original ==
    IsEquallySpaced
    => /\ IsPrediction(prediction.value)
       /\ prediction.value.average_consumption_rate.kind = "fin"
       /\ prediction.value.average_consumption_rate.hundredths * FirstGap(order_history)
              = 100 * order_history[1].quantity
       /\ prediction.value.confidence_score = 100
       /\ prediction.value.confidence = "high"

\* C12 as amended: such a history gives average_consumption_rate = q/d
\* rounded to two decimals, confidence_score 1.0 and confidence HIGH.
C12_EqualSpacing ==
    IsEquallySpaced
    => /\ IsPrediction(prediction.value)
       /\ prediction.value.average_consumption_rate
              = [kind |-> "fin",
                 hundredths |-> RoundHalfEven(100 * order_history[1].quantity, FirstGap(order_history))]
       /\ prediction.value.confidence_score = 100
       /\ prediction.value.confidence = "high"

\* the 4 orders of 60 units every 30 days of demo.py: 2.0 a day, HIGH
C12_Witness ==
    /\ IsEquallySpaced /\ order_history = DemoHistory
    /\ prediction.value.average_consumption_rate = [kind |-> "fin", hundredths |-> 200]
    /\ prediction.value.confidence = "high"

\* a prediction was returned
Predicted == pc = "predicted" /\ prediction.kind = "return" /\ IsPrediction(prediction.value)

\* the day REORDER_LEAD_DAYS before the predicted depletion date
LeadDay == prediction.value.predicted_depletion_date.ord - REORDER_LEAD_DAYS

\* C13: in every returned prediction suggested_reorder_date is
\* max(predicted_depletion_date - 7 days, today): 7 days before the depletion
\* date when that day is not past, today otherwise.
C13_ReorderIsClampedLead ==
    Predicted
    => /\ (LeadDay >= today => prediction.value.suggested_reorder_date.ord = LeadDay)
       /\ (LeadDay < today => prediction.value.suggested_reorder_date.ord = today)

\* a prediction whose lead day is still to come: the suggestion is that day
C13_Witness ==
    /\ Predicted /\ LeadDay > today
    /\ prediction.value.suggested_reorder_date.ord = LeadDay

\* the quantities of the last three orders by date, summed
RecentTotal == SumQty(RecentOrders(SortedFrame(order_history)))

\* C14: in every returned prediction suggested_quantity is the mean of the
\* quantities of the last three orders by date, rounded to the nearest
\* integer: it lies within 1/2 of the mean.
C14_NearestMean ==
    Predicted /\ ValidHistory(order_history)
    => /\ 2 * (3 * prediction.value.suggested_quantity - RecentTotal) <= 3
       /\ 2 * (RecentTotal - 3 * prediction.value.suggested_quantity) <= 3

\* no two consecutive orders by date are a positive number of days apart
NoPositiveGap(h) ==
    LET df == SortedFrame(h)
    IN  \A i \in 2..Len(df) : df[i].order_date - df[i - 1].order_date <= 0

\* C15: a history in which no consecutive pair of orders gives a valid
\* interval rate, as when all orders fall on one date, yields none.
C15_NoValidIntervalGivesNone ==
    pc = "predicted" /\ ValidHistory(order_history) /\ NoPositiveGap(order_history)
    => prediction = Return(None)

\* C16: in every returned prediction the reported average_consumption_rate,
\* after its rounding to two decimals, is a finite number greater than 0.
C16_FinitePositiveReportedRate ==
    Predicted
    => /\ prediction.value.average_consumption_rate.kind = "fin"
       /\ prediction.value.average_consumption_rate.hundredths > 0

(***************************************************************************)
(* Further properties of the parser (SpecParser)                           *)
(***************************************************************************)
\* the segment yields a request: 3 characters or more, and a name
IsNamed(seg) == Len(seg) >= 3 /\ _extract_medicine_name(seg) # <<>>

StrippedSegments(msg) == [k \in 1..Len(Segments(msg)) |-> strip(Segments(msg)[k])]

\* the segments of the message that yield the requests, in order
NamedSegments(msg) == SelectSeq(StrippedSegments(msg), IsNamed)

Indicator(b) == IF b THEN 2 ELSE 0

\* min(1.0, 0.4 + 0.2 [name from the table] + 0.2 [dosage] + 0.2 [quantity
\* is not 30]) in tenths, for the request m made from the segment seg
StatedConfidence(seg, m) ==
    LET score == 4 + Indicator(KnownName(lower(seg)) # <<>>)
                   + Indicator(m.dosage # <<>>)
                   + Indicator(m.quantity # DEFAULT_QUANTITY)
    IN  IF score < 10 THEN score ELSE 10

\* C17: the confidence of every request is min(1.0, 0.4 + 0.2 when the name
\* was matched through the table of known names rather than guessed + 0.2
\* when a dosage is present + 0.2 when the quantity is not the default 30).
C17_ConfidenceFormula ==
    ppc = "parsed" /\ result.kind = "return" /\ result.value.next_action # "greet"
    => /\ Len(Medicines) = Len(NamedSegments(message))
       /\ \A i \in 1..Len(Medicines) :
              Medicines[i].confidence = StatedConfidence(NamedSegments(message)[i], Medicines[i])

(***************************************************************************)
(* The caller's history, batches and the mean rate (SpecForecast)          *)
(***************************************************************************)
\* C18: predict_depletion leaves the caller's order history as it was: the
\* same entries in the same order with the same fields, and no added keys.
C18_HistoryNotMutated ==
    [][pc = "start" /\ pc' = "predicted" => order_history' = order_history]_vars

\* a prediction made from a history that the sort reorders and whose frame
\* gains the two columns, the caller's list being what it handed in
C18_Witness ==
    /\ Predicted /\ ValidHistory(order_history)
    /\ SortedFrame(order_history) # to_datetime(order_history)
    /\ WithRateColumns(SortedFrame(order_history)) # SortedFrame(order_history)
    /\ prediction.value.historical_data = order_history

\* the predictions of a batch that are for the medicine m
ForMedicine(preds, m) == SelectSeq(preds, LAMBDA p : p.medicine_id = m)

\* the dict with the history of its j-th medicine replaced by h
WithHistory(items, j, h) == [items EXCEPT ![j].order_history = h]

\* C19: the batch holds exactly one prediction for every medicine whose own
\* history yields one, and none for the others; the prediction for a medicine
\* stays the same when the history of another medicine is changed.
C19_OnePerMedicineIndependently ==
    bpc = "generated"
    => /\ \A i \in 1..Len(all_order_history) :
              LET item == all_order_history[i]
                  own == predict_depletion_for(item.medicine_id, item.order_history, today)
              IN  ForMedicine(predictions.value, item.medicine_id) =
                      IF own.value = None THEN <<>> ELSE <<own.value>>
       /\ \A p \in {predictions.value[k] : k \in 1..Len(predictions.value)} :
              \E i \in 1..Len(all_order_history) : all_order_history[i].medicine_id = p.medicine_id
       /\ \A i, j \in 1..Len(all_order_history) : \A h \in BatchHistories :
              i # j => ForMedicine(generate_predictions_for_user(
                                       WithHistory(all_order_history, j, h), today),
                                   all_order_history[i].medicine_id)
                       = ForMedicine(predictions.value, all_order_history[i].medicine_id)

\* three medicines, the first without a prediction, the other two with one
C19_Witness ==
    /\ bpc = "generated" /\ Len(all_order_history) = 3
    /\ predict_depletion(all_order_history[1].order_history, today).value = None
    /\ Len(predictions.value) = 2
    /\ predictions.value[1].medicine_id = all_order_history[2].medicine_id
    /\ predictions.value[2].medicine_id = all_order_history[3].medicine_id

\* the consecutive pairs of the sorted frame that lie a positive number of
\* days apart
PositiveGapRows(df) == {i \in 2..Len(df) : HasInterval(df, i) /\ days_since_last(df, i) > 0}

\* the mean of quantity[i-1] / gap over the pairs with a positive gap
MeanOverPositiveGaps(df) ==
    LET rows == PositiveGapRows(df)
    IN  IF rows = {} THEN [kind |-> "zero"]
        ELSE LET s == SumRates(df, rows)
                 m == Frac(s.num, s.den * Cardinality(rows))
             IN  [kind |-> "fin", num |-> m.num, den |-> m.den]

\* C20: the consumption rate is the arithmetic mean, over the consecutive
\* pairs of date-sorted orders with a positive gap, of the earlier quantity
\* over the gap; pairs with a gap of zero days are discarded and do not
\* affect the mean.
C20_ZeroGapsDiscarded ==
    pc = "predicted" /\ ValidHistory(order_history) /\ Len(order_history) >= 2
    => _calculate_consumption_rate(SortedFrame(order_history))
           = MeanOverPositiveGaps(SortedFrame(order_history))

(***************************************************************************)
(* The depletion date, the confidence level and the notification window    *)
(* (SpecForecast)                                                           *)
(***************************************************************************)
\* the rate predict_depletion divides by, and the last order of the frame
UsedRate == _calculate_consumption_rate(SortedFrame(order_history))

LastOrder == SortedFrame(order_history)[Len(order_history)]

\* whole days n are the nearest to q / (num/den) days: |n - q*den/num| <= 1/2
NearestDays(n, q, rate) ==
    LET twice == 2 * n * rate.num - 2 * q * rate.den
    IN  twice <= rate.num /\ -twice <= rate.num

\* C21: predicted_depletion_date is last_order_date plus last_order_quantity
\* / rate days, a fraction of a day being rounded to the nearest whole day.
C21_NearestWholeDay ==
    Predicted /\ ValidHistory(order_history) /\ UsedRate.kind = "fin"
    => NearestDays(prediction.value.predicted_depletion_date.ord
                       - prediction.value.last_order_date.ord,
                   prediction.value.last_order_quantity, UsedRate)

\* C22: in every returned prediction the level agrees with the reported
\* score: high iff confidence_score >= 0.7, medium iff 0.5 <= confidence_score
\* < 0.7, low iff confidence_score < 0.5.
C22_LevelAgreesWithReportedScore ==
    Predicted
    => /\ prediction.value.confidence = "high"
              <=> prediction.value.confidence_score >= PREDICTION_CONFIDENCE_THRESHOLD
       /\ prediction.value.confidence = "medium"
              <=> /\ prediction.value.confidence_score >= 50
                  /\ prediction.value.confidence_score < PREDICTION_CONFIDENCE_THRESHOLD
       /\ prediction.value.confidence = "low" <=> prediction.value.confidence_score < 50

\* C28: when should_notify_user is true for a prediction that
\* predict_depletion computed on the same day, the suggested reorder date of
\* that prediction is today.
C28_NotifiedReorderIsToday ==
    pc = "notified" /\ order_history # <<>> /\ notify = Return(TRUE)
    => prediction.value.suggested_reorder_date = Date(today)

\* a computed prediction due in three days, for which the user is notified
C28_Witness ==
    /\ pc = "notified" /\ order_history = ThirdsHistory /\ notify = Return(TRUE)
    /\ DaysUntil(prediction.value) = 3
    /\ prediction.value.suggested_reorder_date = Date(today)

(***************************************************************************)
(* Quantities, segments, greetings and names (SpecParser)                  *)
(***************************************************************************)
\* the only number of the (lowercased) segment is the amount of a dosage
OnlyNumberIsDosage(t) ==
    /\ Cardinality(RunStarts(t)) = 1
    /\ \A i \in RunStarts(t) : DosageAt(t, i) # <<>>

\* C23: the amount of a dosage is never returned as the quantity of its
\* segment: a segment whose only number is a dosage amount gets the default
\* quantity 30.
C23_DosageAmountIsNotQuantity ==
    ppc = "parsed" /\ result.kind = "return" /\ result.value.next_action # "greet"
        /\ Len(Medicines) = Len(NamedSegments(message))
    => \A i \in 1..Len(Medicines) :
           OnlyNumberIsDosage(lower(NamedSegments(message)[i]))
           => Medicines[i].quantity = DEFAULT_QUANTITY

\* the message ends "<known medicine> ..., <n> <unit>": its last segment
\* opens with a number and a unit of quantity, and the segment before it
\* names a known medicine
QuantityAfterComma(segs) ==
    /\ Len(segs) >= 2
    /\ KnownName(lower(segs[Len(segs) - 1])) # <<>>
    /\ segs[Len(segs)] # <<>> /\ IsDigit(segs[Len(segs)][1])
    /\ QuantityAt(lower(segs[Len(segs)]), 1)

StatedQuantity(segs) == IntValue(DigitRun(segs[Len(segs)], 1))

\* C24: when a message names a known medicine and states its quantity after
\* a comma, the only request is for that medicine, with the quantity n.
C24_QuantityAfterComma ==
    ppc = "parsed" /\ result.kind = "return" /\ QuantityAfterComma(StrippedSegments(message))
    => /\ Len(Medicines) = 1
       /\ Medicines[1].name
              = title(KnownName(lower(StrippedSegments(message)[Len(StrippedSegments(message)) - 1])))
       /\ Medicines[1].quantity = StatedQuantity(StrippedSegments(message))

\* C25: next_action is greet only for a message in which a greeting stands
\* as a token; a message without a greeting token is never routed to greet.
C25_GreetOnlyOnGreetingToken ==
    ppc = "parsed" /\ result.kind = "return" /\ result.value.next_action = "greet"
    => HasGreetingToken(lower(message))

\* the table entries one of whose variants occurs in t
MatchingEntries(t) == {n \in 1..Len(COMMON_MEDICINES) : MentionsKnown(t, COMMON_MEDICINES[n])}

\* the name the claim C26 gives the segment
ResolvedName(seg) ==
    IF MatchingEntries(lower(seg)) = {} THEN HeuristicName(seg)
    ELSE COMMON_MEDICINES[Min(MatchingEntries(lower(seg)))].name

\* C26: the name of a segment is the canonical name of the first table entry,
\* in table order, one of whose variants occurs in the lowercased segment,
\* wherever the variants stand; the heuristic is used only when no entry
\* matches.
C26_FirstTableEntryWins ==
    ppc = "parsed" /\ result.kind = "return" /\ result.value.next_action # "greet"
    => /\ Len(Medicines) = Len(NamedSegments(message))
       /\ \A i \in 1..Len(Medicines) :
              Medicines[i].name = title(ResolvedName(NamedSegments(message)[i]))

\* "Aspirin tylenol": aspirin stands first in the segment, paracetamol (of
\* which tylenol is a variant) first in the table
C26_Witness ==
    /\ ppc = "parsed" /\ result.kind = "return"
    /\ message = <<"A", "s", "p", "i", "r", "i", "n", " ", "t", "y", "l", "e", "n", "o", "l">>
    /\ Len(Medicines) = 1
    /\ Medicines[1].name = <<"P", "a", "r", "a", "c", "e", "t", "a", "m", "o", "l">>

\* C27: every segment contributes at most one request, a segment of fewer
\* than 3 characters or without a name none, and the requests stand in the
\* order of their segments; so there are never more requests than segments.
C27_OneRequestPerSegmentInOrder ==
    ppc = "parsed" /\ result.kind = "return"
    => /\ Len(Medicines) <= Len(Segments(message))
       /\ result.value.next_action # "greet"
          => /\ Len(Medicines) = Len(NamedSegments(message))
             /\ \A i \in 1..Len(Medicines) :
                    /\ Medicines[i].name = title(_extract_medicine_name(NamedSegments(message)[i]))
                    /\ Medicines[i].dosage = _extract_dosage(NamedSegments(message)[i])

\* three segments, the middle one blank, and the two requests in the order
\* of their segments
C27_Witness ==
    /\ ppc = "parsed" /\ result.kind = "return"
    /\ Len(Segments(message)) = 3
    /\ Len(strip(Segments(message)[2])) < 3
    /\ Len(Medicines) = 2
    /\ Medicines[1].name = <<"P", "a", "r", "a", "c", "e", "t", "a", "m", "o", "l">>
    /\ Medicines[2].name = <<"A", "s", "p", "i", "r", "i", "n">>

(***************************************************************************)
(* The cart and the connection manager (SpecCart, SpecSocket)              *)
(***************************************************************************)
\* C29: confirm_cart loses no cart item: every item it deletes from the cart
\* is contained in the order it inserted, under any interleaving with an
\* order_chat call on the same cart; and on an empty cart it returns an error
\* without inserting an order.
C29_NoCartItemLost ==
    cpc = "done"
    => /\ response.kind = "return"
          => /\ Len(orders) = 1
             /\ deleted \subseteq orders[1]
       /\ response.kind = "raise" => orders = <<>> /\ deleted = {}

\* C30: send_to_user attempts delivery to every client subscribed to the
\* user that has an active connection, also when the send to an earlier
\* client of the list fails and that client is disconnected during the loop;
\* after disconnect(c), c is in neither active_connections nor any
\* subscription list.
C30_EverySubscriberAttempted ==
    /\ sending # Pending /\ sending.pc = "done"
       => \A c \in Range(user_subscriptions[sending.user_id]) \cap active_connections :
              c \in sending.attempted
    /\ \A c \in disconnected :
           c \notin active_connections /\ \A u \in Users : c \notin Range(user_subscriptions[u])

====
